---------------------------- MODULE Spec2Model ----------------------------
(***************************************************************************)
(* A model of mmomasters/tkgateway: the gateway client (lock.py), the      *)
(* discovery scanner (discover.py) and the benchmark runner                *)
(* (benchmark.py).  The three tools share no runtime state, so each has    *)
(* its own specification over its own variables; the variables of the      *)
(* other tools stay at their initial values.                               *)
(*                                                                         *)
(* Environment assumptions, stated once:                                   *)
(*  - time.time() does not run backwards during a run;                     *)
(*  - time.sleep(s) returns no earlier than s after it was called;         *)
(*  - identifiers and shared secrets in config.json are ASCII strings      *)
(*    (lock.py:50 encodes the secret with "ascii");                        *)
(*  - the network is unconstrained: a request may fail, time out, be       *)
(*    answered with any status and with any bytes as its body.             *)
(* Time is counted in ticks of 0.2 s; TicksPerSecond ticks make a second.  *)
(***************************************************************************)
EXTENDS Integers, Sequences, FiniteSets, TLC

VARIABLES
    \* ---- lock.py, class Gateway ----
    now,                \* the value time.time() would return
    last_request_time,  \* Gateway.last_request_time
    pc,                 \* position of the one calling thread in the current call
    op,                 \* the Gateway method being executed and its arguments
    current_time,       \* _rate_limit: current_time
    sleep_time,         \* _rate_limit: sleep_time (0 when the branch is not taken)
    request,            \* the request built by the method (url, data)
    sent,               \* urlopen calls made by the current invocation
    outcome,            \* what the network did with the request
    result,             \* what the method gave back: return value / exception
    reqLog,             \* history: tier and last_request_time of every call so far
    \* ---- request signing (lock.py action, benchmark.py) ----
    signed,             \* the signed requests built so far
    \* ---- lock.py, the command line ----
    cfgFile,            \* what config.json is: missing, not JSON, lacking a key, ok
    lockers,            \* config["lockers"]: name -> which keys the entry has
    argv,               \* sys.argv[1:]
    cliPc,              \* position of the script
    cliCall,            \* the Gateway method the dispatch invokes
    cliSent,            \* HTTP requests issued by this run
    cliOutcome,         \* what the network did with the run's request
    exitCode,           \* the process exit status, once it has exited
    \* ---- discover.py, scan_ports ----
    hostOpen,           \* the ports of the host on which a TCP connect succeeds
    task,               \* state of each submitted future: queued, running, done
    taskResult,         \* what check_port returned in each finished future
    collected,          \* the futures as_completed has yielded so far
    open_ports,         \* scan_ports: open_ports
    scanPc,             \* position of scan_ports
    \* ---- discover.py, scan_endpoints ----
    epDone,             \* probes made so far, GET list first, then POST list
    epNet,              \* what the network did with the latest probe
    epResults,          \* history: the result try_endpoint gave for each probe
    discovered,         \* scan_endpoints: discovered
    epPc,               \* position of scan_endpoints
    epPort,             \* scan_endpoints: port
    epRequests,         \* history: the (port, method, path) requests issued
    \* ---- discover.py, main ----
    mainPc,             \* position of main
    mainIdx,            \* how many elements of open_ports the loop has taken
    all_discoveries,    \* main: all_discoveries
    \* ---- benchmark.py, run_benchmark_suite ----
    configFile,         \* what GatewayBenchmark.__init__ found at config_file
    benchLockers,       \* config["lockers"], in the order of the dict
    iterations,         \* the iterations argument
    benchPc,            \* position of run_benchmark_suite
    testIdx,            \* which gateway test, or which locker, the loop is at
    iterIdx,            \* requests made so far in the current range(iterations)
    results,            \* self.results
    requests,           \* history: the HTTP requests issued
    skipMessages,       \* history: the lockers a skip message was printed for
    times,              \* run_benchmark_suite: times, of the test in progress
    report              \* what generate_report printed and wrote

gwVars == <<now, last_request_time, pc, op, current_time, sleep_time,
            request, sent, outcome, result, reqLog>>

signVars == <<signed>>

cliVars == <<cfgFile, lockers, argv, cliPc, cliCall, cliSent, cliOutcome,
            exitCode>>

portVars == <<hostOpen, task, taskResult, collected, open_ports, scanPc>>
epVars == <<epDone, epNet, epResults, discovered, epPc, epPort, epRequests>>
discVars == <<mainPc, mainIdx, all_discoveries>>

benchVars == <<configFile, benchLockers, iterations, benchPc, testIdx, iterIdx,
               results, requests, skipMessages, times, report>>

vars == <<gwVars, signVars, cliVars, portVars, epVars, discVars, benchVars>>

\* What each tool leaves alone: the variables of the others
exceptGw == <<signVars, cliVars, portVars, epVars, benchVars, discVars>>
exceptSign == <<gwVars, cliVars, portVars, epVars, benchVars, discVars>>
exceptCli == <<gwVars, signVars, portVars, epVars, benchVars, discVars>>
exceptPorts == <<gwVars, signVars, cliVars, epVars, benchVars, discVars>>
exceptEp == <<gwVars, signVars, cliVars, portVars, benchVars, discVars>>
exceptBench == <<gwVars, signVars, cliVars, portVars, epVars, discVars>>
exceptMain == <<gwVars, signVars, cliVars, benchVars>>

-----------------------------------------------------------------------------
(* Bounds of the model *)

Horizon == 11
MaxCalls == 3
MaxSigned == 2
MaxEndpoints == 2
MaxIterations == 1
MaxResults == 3

-----------------------------------------------------------------------------
(* lock.py: Gateway *)

\* __init__ defaults: rate_limit_delay=1.0, rate_limit_delay_light=0.2.
\* One tick is 0.2 s, so the light delay is 1 tick and the heavy delay 5.
RateLimitDelay == 5
RateLimitDelayLight == 1
\* 1.0 s, the heavy delay, is one second
TicksPerSecond == RateLimitDelay

\* The clock reads Unix time, far beyond any delay, when the process starts.
StartTime == 2 * TicksPerSecond
MaxTime == StartTime + Horizon

SignedOps == {"open", "close", "calibrate", "locker_status"}
LockerOps == {"synchronize_locker", "update_locker"}
GatewayOps == {"synchronize", "update", "status_gateway", "search"}
Ops == SignedOps \cup LockerOps \cup GatewayOps

\* Arguments of the calls: locker identifiers and shared secrets
Identifiers == {"id1", "id2"}
Secrets == {"k1", "k2"}
CallIdentifiers == {"id1"}
CallSecrets == {"k1"}

\* The light_operation argument each method passes to _rate_limit.
LightOperation(o) ==
    CASE o \in SignedOps -> FALSE
      [] o = "synchronize_locker" -> TRUE
      [] o = "update_locker" -> TRUE
      [] o = "synchronize" -> TRUE
      [] o = "update" -> TRUE
      [] o = "status_gateway" -> TRUE
      [] o = "search" -> TRUE

\* delay = self.rate_limit_delay_light if light_operation else self.rate_limit_delay
DelayIgnoringTier(light) == RateLimitDelay
Delay(light) == IF light THEN RateLimitDelayLight ELSE RateLimitDelay

\* sleep_time = delay - time_since_last_request, under the guard of line 36
SleepTimeElapsed(delay, since) == IF since < delay THEN since ELSE 0
SleepTime(delay, since) == IF since < delay THEN delay - since ELSE 0

-----------------------------------------------------------------------------
(* Request signing: lock.py:49-53 and benchmark.py:86-89 *)

\* str(n) for n >= 0: the decimal digits
RECURSIVE Str(_)
Str(n) == IF n < 10 THEN <<n>> ELSE Append(Str(n \div 10), n % 10)

\* int(time.time()): whole seconds
IntSeconds(t) == t \div TicksPerSecond

\* hmac.new(key, msg, hashlib.sha256).digest(), taken as collision-free
HmacSha256(key, msg) == <<"hmac-sha256", key, msg>>
\* base64.b64encode(d).decode('ascii')
B64Encode(d) == <<"b64", d>>

\* action(): ts, hm, hash and the urlencoded form
ActionDataSigningIdentifier(identifier, code, t) ==
    LET ts == Str(IntSeconds(t))
    IN  [hash |-> B64Encode(HmacSha256(code, <<identifier, ts>>)),
         identifier |-> identifier, ts |-> ts]
ActionData(identifier, code, t) ==
    LET ts == Str(IntSeconds(t))
        hash == B64Encode(HmacSha256(code, ts))
    IN  [hash |-> hash, identifier |-> identifier, ts |-> ts]

-----------------------------------------------------------------------------
(* Outcomes of urlopen and what each method makes of them *)

BodyKinds == {"empty", "json", "text", "binary"}
    \* empty: b""; json: UTF-8 text that is JSON; text: UTF-8 text that is
    \* not JSON; binary: bytes that are not UTF-8
FailureKinds == {"URLError", "timeout", "HTTPError"}
    \* network failure, timeout, a status outside 2xx
Outcomes == [kind : FailureKinds] \cup [kind : {"response"}, body : BodyKinds]
NoOutcome == [kind |-> "none"]

NoExc == "none"
Returned(v) == [ret |-> v, exc |-> NoExc]
Raised(e) == [ret |-> "no_return", exc |-> e]
NoResult == [ret |-> "pending", exc |-> NoExc]

\* Python's exception classes: each class with its base classes
Bases(e) ==
    CASE e = "HTTPError" -> {"HTTPError", "URLError", "OSError", "Exception"}
      [] e = "URLError" -> {"URLError", "OSError", "Exception"}
      [] e = "timeout" -> {"timeout", "OSError", "Exception"}
      [] e = "UnicodeDecodeError" -> {"UnicodeDecodeError", "ValueError", "Exception"}
      [] e = "JSONDecodeError" -> {"JSONDecodeError", "ValueError", "Exception"}
      [] OTHER -> {e}
IsInstance(e, cls) == cls \in Bases(e)

\* urllib.request.urlopen(req, timeout=10)
Urlopen(o) == IF o.kind = "response" THEN Returned(o.body) ELSE Raised(o.kind)
\* response.read().decode('utf-8')
ReadDecode(body) ==
    IF body = "binary" THEN Raised("UnicodeDecodeError") ELSE Returned(body)
\* json.loads(res)
JsonLoads(res) == IF res = "json" THEN Returned("json_value") ELSE Raised("JSONDecodeError")

\* The try body of action / synchronize / update / status_gateway / search
PlainTry(o) ==
    LET r == Urlopen(o)
    IN  IF r.exc # NoExc THEN r
        ELSE LET res == ReadDecode(r.ret)
             IN  IF res.exc # NoExc THEN res ELSE JsonLoads(res.ret)

\* except Exception as e: ... return None
ExceptURLErrorOnly(r) ==
    IF r.exc # NoExc /\ IsInstance(r.exc, "URLError") THEN Returned("None") ELSE r
ExceptException(r) ==
    IF r.exc # NoExc /\ IsInstance(r.exc, "Exception") THEN Returned("None") ELSE r

\* The try body of synchronize_locker / update_locker
LockerTry(o) ==
    LET r == Urlopen(o)
    IN  IF r.exc # NoExc THEN r
        ELSE LET res == ReadDecode(r.ret)
             IN  IF res.exc # NoExc THEN res
                 ELSE IF res.ret # "empty" THEN JsonLoads(res.ret)
                 ELSE Returned("status_ok")

\* except json.JSONDecodeError: return {"status": "ok"}; except Exception: return None
LockerExcept(r) ==
    IF r.exc = NoExc THEN r
    ELSE IF IsInstance(r.exc, "JSONDecodeError") THEN Returned("status_ok")
    ELSE ExceptException(r)

ActionResult(o) == ExceptException(PlainTry(o))
SynchronizeLockerResult(o) == LockerExcept(LockerTry(o))
UpdateLockerResult(o) == LockerExcept(LockerTry(o))
SynchronizeResult(o) == ExceptException(PlainTry(o))
UpdateResult(o) == ExceptException(PlainTry(o))
StatusGatewayResult(o) == ExceptException(PlainTry(o))
SearchResult(o) == ExceptException(PlainTry(o))

\* open/close/calibrate/locker_status all return self.action(...)
OpResult(o, net) ==
    CASE o \in SignedOps -> ActionResult(net)
      [] o = "synchronize_locker" -> SynchronizeLockerResult(net)
      [] o = "update_locker" -> UpdateLockerResult(net)
      [] o = "synchronize" -> SynchronizeResult(net)
      [] o = "update" -> UpdateResult(net)
      [] o = "status_gateway" -> StatusGatewayResult(net)
      [] o = "search" -> SearchResult(net)

\* Where control goes after urlopen: every branch of every method returns.
AfterUrlopenRetry(net) == IF net.kind = "response" THEN "returned" ELSE "send"
AfterUrlopen(net) == "returned"

\* The request each method builds
Path(o) ==
    CASE o \in SignedOps -> <<"/", o>>
      [] o = "synchronize_locker" -> <<"/", "locker/synchronize">>
      [] o = "update_locker" -> <<"/", "locker/update">>
      [] o = "synchronize" -> <<"/", "synchronize">>
      [] o = "update" -> <<"/", "update">>
      [] o = "status_gateway" -> <<"/", "status">>
      [] o = "search" -> <<"/", "lockers">>

NoOp == [name |-> "none"]
NoRequest == [url |-> "none"]

Calls ==
    [name : SignedOps, identifier : CallIdentifiers, code : CallSecrets]
    \cup [name : LockerOps, identifier : CallIdentifiers]
    \cup [name : GatewayOps]

GwInit ==
    /\ now = StartTime
    /\ last_request_time = 0
    /\ pc = "idle"
    /\ op = NoOp
    /\ current_time = 0
    /\ sleep_time = 0
    /\ request = NoRequest
    /\ sent = 0
    /\ outcome = NoOutcome
    /\ result = NoResult
    /\ reqLog = <<>>

SignIdle == signed = {}

\* The port scan not run
PortsIdle ==
    /\ hostOpen = {}
    /\ task = <<>>
    /\ taskResult = <<>>
    /\ collected = {}
    /\ open_ports = <<>>
    /\ scanPc = "idle"

\* The endpoint scan not run
EpIdle ==
    /\ epDone = 0
    /\ epNet = NoOutcome
    /\ epResults = <<>>
    /\ discovered = [GET |-> <<>>, POST |-> <<>>]
    /\ epPc = "idle"
    /\ epPort = 0
    /\ epRequests = <<>>

\* main of the discovery tool not run
MainIdle ==
    /\ mainPc = "idle"
    /\ mainIdx = 0
    /\ all_discoveries = <<>>

\* The benchmark not run
BenchIdle ==
    /\ configFile = "missing"
    /\ benchLockers = <<>>
    /\ iterations = 0
    /\ benchPc = "idle"
    /\ testIdx = 0
    /\ iterIdx = 0
    /\ results = <<>>
    /\ requests = <<>>
    /\ skipMessages = <<>>
    /\ times = <<>>
    /\ report = [written |-> FALSE]

\* The command line tool not run
CliIdle ==
    /\ cfgFile = "ok"
    /\ lockers = <<>>
    /\ argv = <<>>
    /\ cliPc = "idle"
    /\ cliCall = "none"
    /\ cliSent = 0
    /\ cliOutcome = NoOutcome
    /\ exitCode = -1

\* Time passes: while the caller is between calls, while a request is in
\* flight, between two statements, or when a sleep overshoots.
Tick ==
    /\ now < MaxTime
    /\ now' = now + 1
    /\ UNCHANGED <<last_request_time, pc, op, current_time, sleep_time,
                   request, sent, outcome, result, reqLog>>
    /\ UNCHANGED exceptGw

\* A method is called; _rate_limit lines 30-37.
Call(c) ==
    /\ pc \in {"idle", "returned"}
    /\ Len(reqLog) < MaxCalls
    /\ now + RateLimitDelay <= MaxTime
    /\ op' = c
    /\ current_time' = now
    /\ LET time_since_last_request == now - last_request_time
           delay == Delay(LightOperation(c.name))
       IN  /\ sleep_time' = SleepTime(delay, time_since_last_request)
           /\ pc' = IF time_since_last_request < delay THEN "sleep" ELSE "stamp"
    /\ request' = NoRequest
    /\ sent' = 0
    /\ outcome' = NoOutcome
    /\ result' = NoResult
    /\ UNCHANGED <<now, last_request_time, reqLog>>
    /\ UNCHANGED exceptGw

\* time.sleep(sleep_time), line 41
Sleep ==
    /\ pc = "sleep"
    /\ now + sleep_time <= MaxTime
    /\ now' = now + sleep_time
    /\ pc' = "stamp"
    /\ UNCHANGED <<last_request_time, op, current_time, sleep_time,
                   request, sent, outcome, result, reqLog>>
    /\ UNCHANGED exceptGw

\* self.last_request_time = time.time(), line 43
Stamp ==
    /\ pc = "stamp"
    /\ last_request_time' = now
    /\ reqLog' = Append(reqLog, [light |-> LightOperation(op.name), t |-> now])
    /\ pc' = "build"
    /\ UNCHANGED <<now, op, current_time, sleep_time, request, sent, outcome, result>>
    /\ UNCHANGED exceptGw

\* time.time() at line 49, where action() takes its timestamp
TimeBeforeRateLimit == current_time
TimeAtSigning == now

\* The method builds its request: lines 49-56 for the signed operations,
\* 84-88, 112-116, 140-141, 157-158, 174-175, 190-191 for the others.
Build ==
    /\ pc = "build"
    /\ request' =
         IF op.name \in SignedOps
         THEN [url |-> Path(op.name), data |-> ActionData(op.identifier, op.code, TimeAtSigning)]
         ELSE IF op.name \in LockerOps
         THEN [url |-> Path(op.name), data |-> [identifier |-> op.identifier]]
         ELSE [url |-> Path(op.name)]
    /\ pc' = "send"
    /\ UNCHANGED <<now, last_request_time, op, current_time, sleep_time,
                   sent, outcome, result, reqLog>>
    /\ UNCHANGED exceptGw

\* urlopen and the handling of what it gives, up to the method's return
Send(net) ==
    /\ pc = "send"
    /\ sent' = sent + 1
    /\ outcome' = net
    /\ pc' = AfterUrlopen(net)
    /\ result' = IF pc' = "returned" THEN OpResult(op.name, net) ELSE result
    /\ UNCHANGED <<now, last_request_time, op, current_time, sleep_time,
                   request, reqLog>>
    /\ UNCHANGED exceptGw

GwNext ==
    \/ Tick
    \/ \E c \in Calls : Call(c)
    \/ Sleep
    \/ Stamp
    \/ Build
    \/ \E net \in Outcomes : Send(net)

InitGateway == GwInit /\ SignIdle /\ CliIdle /\ PortsIdle /\ EpIdle /\ BenchIdle /\ MainIdle
SpecGateway == InitGateway /\ [][GwNext]_vars

-----------------------------------------------------------------------------
(* Claims about the rate limiter and the Gateway methods (SpecGateway) *)

HeavyOpNames == {"open", "close", "calibrate", "locker_status"}
LightOpNames == {"synchronize_locker", "update_locker", "synchronize",
                 "update", "status_gateway", "search"}
\* The delay a method is documented to use: heavy 1.0 s, light 0.2 s
TierDelay(name) == IF name \in HeavyOpNames THEN RateLimitDelay ELSE RateLimitDelayLight
FlagDelay(light) == IF light THEN RateLimitDelayLight ELSE RateLimitDelay
Max(a, b) == IF a >= b THEN a ELSE b

SameTier(i, j) == \A k \in i..j : reqLog[k].light = reqLog[i].light

\* C1: for calls i..j of one Gateway that all use the same delay d, the
\* j-th request is stamped at least (j-i) x d after the i-th, and the rate
\* limiter never asks to sleep for more than the delay of the call it is in.
C1_RateLimitSpacing ==
    /\ \A i, j \in 1..Len(reqLog) :
         (i < j /\ SameTier(i, j))
            => reqLog[j].t - reqLog[i].t >= (j - i) * FlagDelay(reqLog[i].light)
    /\ pc # "idle" => sleep_time <= TierDelay(op.name)

\* Three heavy calls in a row, the third stamped exactly 2 x d after the
\* first, and the third one slept.
C1_Witness ==
    /\ Len(reqLog) >= 3
    /\ SameTier(1, 3)
    /\ ~reqLog[1].light
    /\ reqLog[3].t - reqLog[1].t = 2 * RateLimitDelay
    /\ pc = "build"
    /\ sleep_time > 0

\* C2: the wait before a call is decided by that call's own tier alone:
\* the requested sleep is what is missing of the call's own delay since the
\* remembered last request time, and the request is stamped no earlier than
\* that delay after the previous one, whatever the previous call was.
C2_DelayByOwnTier ==
    /\ pc \in {"sleep", "stamp"} =>
         sleep_time = Max(0, TierDelay(op.name) - (current_time - last_request_time))
    /\ (pc \in {"build", "send", "returned"} /\ Len(reqLog) >= 2) =>
         reqLog[Len(reqLog)].t - reqLog[Len(reqLog) - 1].t >= TierDelay(op.name)

\* A light call stamped right after a heavy call, one light delay later.
C2_Witness ==
    /\ pc = "build"
    /\ Len(reqLog) >= 2
    /\ op.name \in LightOpNames
    /\ ~reqLog[Len(reqLog) - 1].light
    /\ reqLog[Len(reqLog)].t - reqLog[Len(reqLog) - 1].t = RateLimitDelayLight
    /\ RateLimitDelayLight < RateLimitDelay

\* A body that is not JSON: text that does not parse, or bytes that are no text
ParsesAsJson(body) == body = "json"
Succeeded == pc = "returned" /\ outcome.kind = "response"

\* C3 (as claimed): synchronize_locker and update_locker return
\* {"status": "ok"} whenever the HTTP call succeeds with a body that is empty
\* or does not parse as JSON.
C3_LockerToleratesBadBody ==
    (/\ Succeeded
     /\ op.name \in {"synchronize_locker", "update_locker"}
     /\ (outcome.body = "empty" \/ ~ParsesAsJson(outcome.body)))
       => result = Returned("status_ok")

\* The failures C4 lists, for the method that met them
ListedFailure ==
    \/ outcome.kind \in {"URLError", "timeout", "HTTPError"}
    \/ /\ outcome.kind = "response"
       /\ outcome.body # "empty"
       /\ ~ParsesAsJson(outcome.body)
       /\ op.name \notin {"synchronize_locker", "update_locker"}

\* C4: a network failure, a timeout, a non-2xx status, or (except for the two
\* tolerant locker methods) a non-empty body that fails to decode as JSON
\* makes the method return None; no exception reaches the caller.
C4_FailuresReturnNone ==
    (pc = "returned" /\ ListedFailure)
       => (result.exc = NoExc /\ result.ret = "None")

\* Each kind of listed failure is met: here a timeout in synchronize_locker.
C4_Witness ==
    /\ pc = "returned"
    /\ op.name = "synchronize_locker"
    /\ outcome.kind = "timeout"
    /\ result = Returned("None")

\* C5: every method calls urlopen exactly once per invocation, whatever the
\* outcome: none before the request is built, one when it returns, never two.
C5_OneNetworkCall ==
    /\ sent <= 1
    /\ pc \in {"sleep", "stamp", "build", "send"} => sent = 0
    /\ pc = "returned" => sent = 1

\* A method has returned after a failed request, having called urlopen once.
C5_Witness ==
    /\ pc = "returned"
    /\ outcome.kind \in FailureKinds
    /\ sent = 1

-----------------------------------------------------------------------------
(* Request signing on its own (SpecSign): the signing code of lock.py and  *)
(* of benchmark.py applied to any identifier, secret and clock value       *)

\* benchmark.py _create_locker_status_request: ts, hm, hash_value, data
LockerStatusRequestData(identifier, code, t) ==
    LET ts == Str(IntSeconds(t))
        hash_value == B64Encode(HmacSha256(code, ts))
    IN  [hash |-> hash_value, identifier |-> identifier, ts |-> ts]

\* Gateway.action builds the form of a signed request at clock value t
SignAction(a, identifier, code, t) ==
    /\ Cardinality(signed) < MaxSigned
    /\ signed' = signed \cup {[by |-> a, code |-> code,
                               data |-> ActionData(identifier, code, t)]}
    /\ UNCHANGED exceptSign

\* The benchmark builds the form of a locker_status request at clock value t
SignBenchmark(identifier, code, t) ==
    /\ Cardinality(signed) < MaxSigned
    /\ signed' = signed \cup {[by |-> "benchmark", code |-> code,
                               data |-> LockerStatusRequestData(identifier, code, t)]}
    /\ UNCHANGED exceptSign

SignNext ==
    \/ \E a \in SignedOps, i \in Identifiers, c \in Secrets, t \in StartTime..MaxTime :
          SignAction(a, i, c, t)
    \/ \E i \in Identifiers, c \in Secrets, t \in StartTime..MaxTime :
          SignBenchmark(i, c, t)

InitSign == SignIdle /\ GwInit /\ CliIdle /\ PortsIdle /\ EpIdle /\ BenchIdle /\ MainIdle
SpecSign == InitSign /\ [][SignNext]_vars

\* C10: among signed requests carrying the same timestamp, the hashes are
\* equal exactly when the secrets are equal, whatever the identifier, the
\* action or the tool that signed.
C10_HashFromSecretAndTimestamp ==
    \A r1, r2 \in signed :
        r1.data.ts = r2.data.ts
           => ((r1.code = r2.code) <=> (r1.data.hash = r2.data.hash))

\* Two requests with one timestamp and one secret but different identifiers
\* and actions carry the same hash.
C10_Witness ==
    \E r1, r2 \in signed :
        /\ r1.data.ts = r2.data.ts
        /\ r1.code = r2.code
        /\ r1.data.identifier # r2.data.identifier
        /\ r1.by # r2.by
        /\ r1.data.hash = r2.data.hash

-----------------------------------------------------------------------------
(* lock.py as a script (SpecCli): the configuration load at module level   *)
(* and the dispatch under __main__                                         *)

\* config.json: absent, not JSON, without "lockers", without "gateway", or
\* a configuration with both keys
CfgFiles == {"missing", "invalid_json", "no_lockers", "no_gateway", "ok"}
\* Locker names a configuration may hold; one of them is a command's name
LockerNames == {"door", "list"}
\* A locker entry: whether it has "identifier" and "code"
Entries == [has_identifier : BOOLEAN, has_code : BOOLEAN]
\* Words of the command line.  Only argv[1] and argv[2] are ever read.
Words == {"list", "search", "sync", "update", "status", "open", "close",
          "calibrate", "door", "ghost", "bogus"}
Argvs == {<<>>} \cup {<<a>> : a \in Words} \cup {<<a, b>> : a, b \in Words}

\* sys.exit(1), an uncaught exception (exit status 1), a Gateway method to
\* invoke, or nothing left to do
DoExit1 == [do |-> "exit1"]
DoCrash == [do |-> "crash"]
DoCall(method) == [do |-> "call", method |-> method]
DoSearchAnyway == [do |-> "call", method |-> "search"]
DoNothing == [do |-> "nothing"]

\* Lines 203-207: open, json.load, config["lockers"], config["gateway"]
ConfigLoads(f) == f = "ok"

\* Lines 215-280
Dispatch(args, lk) ==
    IF Len(args) < 1 THEN DoExit1
    ELSE LET arg1 == args[1] IN
    IF arg1 = "list" \/ arg1 = "search" THEN DoCall("search")
    ELSE IF arg1 \in {"sync", "update", "status"} THEN
        (IF arg1 = "sync" THEN DoCall("synchronize")
         ELSE IF arg1 = "update" THEN DoCall("update")
         ELSE DoCall("status_gateway"))
    ELSE IF Len(args) < 2 THEN DoExit1
    ELSE LET action == args[2] IN
    IF arg1 \notin DOMAIN lk THEN DoExit1
    ELSE IF ~lk[arg1].has_identifier THEN DoCrash
    ELSE IF action \in {"open", "close", "calibrate", "status"} THEN
        (IF ~lk[arg1].has_code THEN DoCrash
         ELSE IF action = "open" THEN DoCall("open")
         ELSE IF action = "close" THEN DoCall("close")
         ELSE IF action = "calibrate" THEN DoCall("calibrate")
         ELSE DoCall("locker_status"))
    ELSE IF action \in {"sync", "update"} THEN
        (IF action = "sync" THEN DoCall("synchronize_locker")
         ELSE DoCall("update_locker"))
    ELSE DoNothing

CliInit ==
    /\ cfgFile \in CfgFiles
    /\ \E S \in SUBSET LockerNames :
          lockers \in (IF cfgFile = "ok" THEN [S -> Entries] ELSE {<<>>})
    /\ argv \in Argvs
    /\ cliPc = "load"
    /\ cliCall = "none"
    /\ cliSent = 0
    /\ cliOutcome = NoOutcome
    /\ exitCode = -1

\* The module-level configuration load: an exception here is not caught
LoadConfig ==
    /\ cliPc = "load"
    /\ IF ConfigLoads(cfgFile)
       THEN cliPc' = "main" /\ UNCHANGED exitCode
       ELSE cliPc' = "exited" /\ exitCode' = 1
    /\ UNCHANGED <<cfgFile, lockers, argv, cliCall, cliSent, cliOutcome>>
    /\ UNCHANGED exceptCli

\* The __main__ block up to the Gateway call, if it gets there
Main ==
    /\ cliPc = "main"
    /\ LET d == Dispatch(argv, lockers) IN
         CASE d.do = "exit1" -> cliPc' = "exited" /\ exitCode' = 1 /\ UNCHANGED cliCall
           [] d.do = "crash" -> cliPc' = "exited" /\ exitCode' = 1 /\ UNCHANGED cliCall
           [] d.do = "call" -> cliPc' = "call" /\ cliCall' = d.method /\ UNCHANGED exitCode
           [] d.do = "nothing" -> cliPc' = "end" /\ UNCHANGED <<cliCall, exitCode>>
    /\ UNCHANGED <<cfgFile, lockers, argv, cliSent, cliOutcome>>
    /\ UNCHANGED exceptCli

\* The Gateway method runs: one request, any outcome.  An exception it lets
\* through would end the process with status 1.
Invoke(net) ==
    /\ cliPc = "call"
    /\ cliSent' = cliSent + 1
    /\ cliOutcome' = net
    /\ IF OpResult(cliCall, net).exc = NoExc
       THEN cliPc' = "end" /\ UNCHANGED exitCode
       ELSE cliPc' = "exited" /\ exitCode' = 1
    /\ UNCHANGED <<cfgFile, lockers, argv, cliCall>>
    /\ UNCHANGED exceptCli

\* The script runs off its end: exit status 0
Finish ==
    /\ cliPc = "end"
    /\ cliPc' = "exited"
    /\ exitCode' = 0
    /\ UNCHANGED <<cfgFile, lockers, argv, cliCall, cliSent, cliOutcome>>
    /\ UNCHANGED exceptCli

CliNext ==
    \/ LoadConfig
    \/ Main
    \/ \E net \in Outcomes : Invoke(net)
    \/ Finish

InitCli == CliInit /\ GwInit /\ SignIdle /\ PortsIdle /\ EpIdle /\ BenchIdle /\ MainIdle
SpecCli == InitCli /\ [][CliNext]_vars

GatewayCommands == {"list", "search", "sync", "update", "status"}
NoCommand == Len(argv) = 0
LockerWithoutAction == Len(argv) = 1 /\ argv[1] \notin GatewayCommands
UnknownLocker ==
    Len(argv) >= 2 /\ argv[1] \notin GatewayCommands /\ argv[1] \notin DOMAIN lockers
\* The named locker's entry lacks a key the dispatch reads
EntryLacksKey ==
    /\ Len(argv) >= 2
    /\ argv[1] \notin GatewayCommands
    /\ argv[1] \in DOMAIN lockers
    /\ \/ ~lockers[argv[1]].has_identifier
       \/ (argv[2] \in {"open", "close", "calibrate", "status"} /\ ~lockers[argv[1]].has_code)

\* C9 (as claimed): the exit status is 1 exactly when no command is given, a
\* locker name comes without an action, or the locker is not configured,
\* and 0 in every other case.
C9_ExitCodeAsClaimed ==
    cliPc = "exited" =>
        exitCode = (IF NoCommand \/ LockerWithoutAction \/ UnknownLocker THEN 1 ELSE 0)

\* C9 (amended): the exit status is 1 exactly when config.json does not load
\* (missing, not JSON, no "gateway" or "lockers" key), no command is given, a
\* locker name comes without an action, the locker is not configured, or the
\* named locker's entry lacks "identifier" (or "code", for a signed action);
\* it is 0 in every other case, a failed HTTP call and an unrecognised
\* action included.
C9_ExitCode ==
    cliPc = "exited" =>
        exitCode = (IF \/ ~ConfigLoads(cfgFile)
                       \/ NoCommand \/ LockerWithoutAction \/ UnknownLocker
                       \/ EntryLacksKey
                    THEN 1 ELSE 0)

\* The run issued a request, the request failed, and the exit status is 0.
C9_Witness ==
    /\ cliPc = "exited"
    /\ exitCode = 0
    /\ cliSent = 1
    /\ cliCall = "open"
    /\ cliOutcome.kind = "HTTPError"

-----------------------------------------------------------------------------
(* discover.py: scan_ports (SpecPorts) *)

\* COMMON_PORTS, as written: 8888 is on both lines of the list
COMMON_PORTS == <<80, 443, 8080, 8443, 8888, 9090, 9856,
                  3000, 5000, 8000, 8001, 8888, 9000, 9001>>
\* ThreadPoolExecutor(max_workers=10)
MaxWorkers == 10

\* The ports the model follows.  The candidates are COMMON_PORTS restricted
\* to them, order and repetitions kept; the probes of the other ports are
\* left out.
ModelPorts == {80, 8888, 9856}
InModel(p) == p \in ModelPorts
Candidates == SelectSeq(COMMON_PORTS, InModel)
Tasks == 1..Len(Candidates)

\* check_port: connect_ex(...) == 0, and False on an exception
CheckPort(port, open) == port \in open

Running == {i \in Tasks : task[i] = "running"}

\* scan_ports has submitted one future per element of COMMON_PORTS
PortsInit ==
    /\ hostOpen \in SUBSET ModelPorts
    /\ task = [i \in Tasks |-> "queued"]
    /\ taskResult = [i \in Tasks |-> FALSE]
    /\ collected = {}
    /\ open_ports = <<>>
    /\ scanPc = "collecting"

\* A worker of the pool takes the oldest queued future
StartProbe(i) ==
    /\ task[i] = "queued"
    /\ \A j \in Tasks : j < i => task[j] # "queued"
    /\ Cardinality(Running) < MaxWorkers
    /\ task' = [task EXCEPT ![i] = "running"]
    /\ UNCHANGED <<hostOpen, taskResult, collected, open_ports, scanPc>>
    /\ UNCHANGED exceptPorts

\* check_port returns in its worker: the future is done
FinishProbe(i) ==
    /\ task[i] = "running"
    /\ task' = [task EXCEPT ![i] = "done"]
    /\ taskResult' = [taskResult EXCEPT ![i] = CheckPort(Candidates[i], hostOpen)]
    /\ UNCHANGED <<hostOpen, collected, open_ports, scanPc>>
    /\ UNCHANGED exceptPorts

\* as_completed yields a finished future; lines 121-126
Collect(i) ==
    /\ scanPc = "collecting"
    /\ task[i] = "done"
    /\ i \notin collected
    /\ collected' = collected \cup {i}
    /\ LET port == Candidates[i]
           is_open == taskResult[i]
       IN  open_ports' = IF is_open THEN Append(open_ports, port) ELSE open_ports
    /\ UNCHANGED <<hostOpen, task, taskResult, scanPc>>
    /\ UNCHANGED exceptPorts

\* Every future has been yielded: the pool is joined, open_ports returned
ReturnPorts ==
    /\ scanPc = "collecting"
    /\ collected = Tasks
    /\ scanPc' = "returned"
    /\ UNCHANGED <<hostOpen, task, taskResult, collected, open_ports>>
    /\ UNCHANGED exceptPorts

PortsNext ==
    \/ \E i \in Tasks : StartProbe(i)
    \/ \E i \in Tasks : FinishProbe(i)
    \/ \E i \in Tasks : Collect(i)
    \/ ReturnPorts

InitPorts == PortsInit /\ GwInit /\ SignIdle /\ CliIdle /\ EpIdle /\ BenchIdle /\ MainIdle
SpecPorts == InitPorts /\ [][PortsNext]_vars

Occurrences(seq, x) == Cardinality({k \in 1..Len(seq) : seq[k] = x})
CandidatePorts == {Candidates[i] : i \in Tasks}

\* C6 (as claimed): whatever ports are open and in whatever order the
\* probes complete, the list scan_ports returns holds each candidate port
\* whose connect succeeds exactly once and no port whose connect fails.
C6_EachOpenPortOnce ==
    scanPc = "returned" =>
        \A p \in CandidatePorts :
            Occurrences(open_ports, p) = (IF p \in hostOpen THEN 1 ELSE 0)

-----------------------------------------------------------------------------
(* discover.py: try_endpoint and scan_endpoints on one port (SpecEndpoints) *)

\* API_ENDPOINTS
API_ENDPOINTS_GET == <<"/status", "/synchronize", "/lockers", "/version",
                       "/info", "/health", "/api", "/api/status",
                       "/api/lockers", "/locks", "/devices", "/">>
API_ENDPOINTS_POST == <<"/open", "/close", "/calibrate", "/locker_status",
                        "/locker/synchronize", "/locker/update", "/update",
                        "/lock", "/unlock", "/sync", "/api/open",
                        "/api/close", "/api/lock", "/api/unlock">>
\* The model follows the first MaxEndpoints paths of each list
GetEndpoints == SubSeq(API_ENDPOINTS_GET, 1, MaxEndpoints)
PostEndpoints == SubSeq(API_ENDPOINTS_POST, 1, MaxEndpoints)
NumProbes == Len(GetEndpoints) + Len(PostEndpoints)
ProbeMethod(k) == IF k <= Len(GetEndpoints) THEN "GET" ELSE "POST"
ProbeEndpoint(k) ==
    IF k <= Len(GetEndpoints) THEN GetEndpoints[k]
    ELSE PostEndpoints[k - Len(GetEndpoints)]

\* What a probe can meet: a response (urlopen returns 2xx only) with a body,
\* an HTTPError carrying another status, or a transport failure
ProbeOutcomes ==
    [kind : {"response"}, status : {200}, body : {"json", "text", "binary"}]
    \cup [kind : {"response"}, status : {201, 204}, body : {"json"}]
    \cup [kind : {"HTTPError"}, status : {400, 404}]
    \cup [kind : {"URLError"}]

\* try_endpoint(url, method, timeout=3)
TryEndpoint(net) ==
    IF net.kind = "response"
    THEN LET data == ReadDecode(net.body)
         IN  IF data.exc # NoExc
             THEN [error |-> data.exc, type |-> "exception"]
             ELSE IF JsonLoads(data.ret).exc = NoExc
                  THEN [status |-> net.status, type |-> "json"]
                  ELSE [status |-> net.status, type |-> "text"]
    ELSE IF net.kind = "HTTPError"
    THEN [status |-> net.status, type |-> "http_error"]
    ELSE [error |-> net.kind, type |-> "exception"]

\* result.get("status"): the status, if the result has one
GetStatus(r) == IF "status" \in DOMAIN r THEN {r.status} ELSE {}

\* Lines 150 and 156: a GET result is recorded
GetDiscovers(r) == GetStatus(r) \cap {200, 201} # {}
\* Lines 167, 173, 174 and 176: a POST result is recorded
PostDiscoversOnlyOk(r) == GetStatus(r) \cap {200, 201} # {}
PostDiscovers(r) ==
    IF GetStatus(r) \cap {200, 201} # {} THEN TRUE
    ELSE IF GetStatus(r) \cap {400} # {} THEN TRUE
    ELSE FALSE

\* scan_endpoints(host, port) called by itself, for the first candidate port
EpInit ==
    /\ epDone = 0
    /\ epNet = NoOutcome
    /\ epResults = <<>>
    /\ discovered = [GET |-> <<>>, POST |-> <<>>]
    /\ epPc = "scanning"
    /\ epPort = COMMON_PORTS[1]
    /\ epRequests = <<>>

\* One turn of the GET loop or of the POST loop
Probe(net) ==
    /\ epPc = "scanning"
    /\ epDone < NumProbes
    /\ LET k == epDone + 1
           method == ProbeMethod(k)
           endpoint == ProbeEndpoint(k)
           r == TryEndpoint(net)
           found == IF method = "GET" THEN GetDiscovers(r) ELSE PostDiscovers(r)
       IN  /\ epDone' = k
           /\ epNet' = net
           /\ epResults' = Append(epResults, r)
           /\ epRequests' = Append(epRequests, <<epPort, method, endpoint>>)
           /\ discovered' =
                IF found
                THEN [discovered EXCEPT ![method] = (endpoint :> r) @@ @]
                ELSE discovered
    /\ UNCHANGED <<epPc, epPort>>
    /\ UNCHANGED exceptEp

\* Both loops are over: return discovered, line 178
ReturnEndpoints ==
    /\ epPc = "scanning"
    /\ epDone = NumProbes
    /\ epPc' = "returned"
    /\ UNCHANGED <<epDone, epNet, epResults, discovered, epPort, epRequests>>
    /\ UNCHANGED exceptEp

EpNext ==
    \/ \E net \in ProbeOutcomes : Probe(net)
    \/ ReturnEndpoints

InitEndpoints == EpInit /\ GwInit /\ SignIdle /\ CliIdle /\ PortsIdle /\ BenchIdle /\ MainIdle
SpecEndpoints == InitEndpoints /\ [][EpNext]_vars

StatusIn(r, allowed) == "status" \in DOMAIN r /\ r.status \in allowed
Recorded(k) == ProbeEndpoint(k) \in DOMAIN discovered[ProbeMethod(k)]

-----------------------------------------------------------------------------
(* benchmark.py: GatewayBenchmark.run_benchmark_suite (SpecBench) *)

\* A value of a locker entry as locker_config.get(key) gives it: no value
\* (None) is the empty set, a string s is {s}
IdentifierValues == {{}, {""}, {"YOUR_IDENTIFIER"}, {"id1"}}
CodeValues == {{}, {""}, {"YOUR_SHARE_CODE"}, {"k1"}}
\* The locker names the model follows, in the order of the dict
BenchLockerNames == <<"frontdoor", "garage">>
\* The lockers of a configuration: the first n names, each with an entry
BenchConfigs ==
    UNION {[1..n -> [identifier : IdentifierValues, code : CodeValues]]
               : n \in 0..Len(BenchLockerNames)}
\* What open() and json.load() can make of config_file; "lockers" is
\* there only in "ok"
BenchConfigFiles == {"missing", "invalid_json", "no_lockers", "ok"}

\* tests, lines 105-108
GatewayTests == <<[method |-> "GET", path |-> "/status", desc |-> "Gateway Status"],
                  [method |-> "GET", path |-> "/lockers", desc |-> "List Lockers"]>>

\* Python truth of a .get() value: None and "" are false
Truthy(v) == v # {} /\ v # {""}

\* Line 157
SkipLockerBothPlaceholders(identifier, code) ==
    \/ ~Truthy(identifier)
    \/ ~Truthy(code)
    \/ (identifier = {"YOUR_IDENTIFIER"} /\ code = {"YOUR_SHARE_CODE"})
SkipLocker(identifier, code) ==
    \/ ~Truthy(identifier)
    \/ ~Truthy(code)
    \/ identifier = {"YOUR_IDENTIFIER"}
    \/ code = {"YOUR_SHARE_CODE"}

\* The one string of a value that has one
TheString(v) == CHOOSE x \in v : TRUE

\* end_time - start_time of a request, in tenths of a second: what the model
\* lets a request of the suite take, from an instant answer to the timeout
BenchElapsed == {1, 30}

\* benchmark_request: the result it appends (url, status, error and timestamp
\* are not followed); response_time is in tenths of a second
BenchmarkResult(net, elapsed, method, description, locker_name) ==
    LET r == Urlopen(net)
        ok == r.exc = NoExc /\ ReadDecode(r.ret).exc = NoExc
    IN  [method |-> method, description |-> description,
         success |-> ok, response_time |-> elapsed, locker_name |-> locker_name]

\* Lines 124-125 and 176-177: times.append(...) if result['success']
TimesAfterAlways(ts, r) == Append(ts, r.response_time)
TimesAfter(ts, r) ==
    IF r.success THEN Append(ts, r.response_time) ELSE ts

BenchInit ==
    /\ configFile \in BenchConfigFiles
    /\ benchLockers \in BenchConfigs
    /\ configFile # "ok" => benchLockers = <<>>
    /\ iterations \in 0..MaxIterations
    /\ benchPc = "gateway"
    /\ testIdx = 1
    /\ iterIdx = 0
    /\ results = <<>>
    /\ requests = <<>>
    /\ skipMessages = <<>>
    /\ times = <<>>
    /\ report = [written |-> FALSE]

\* One turn of the inner loop of the gateway tests, lines 117-132
GatewayRequest(net, elapsed) ==
    /\ benchPc = "gateway"
    /\ testIdx <= Len(GatewayTests)
    /\ iterIdx < iterations
    /\ LET test == GatewayTests[testIdx]
           appended == BenchmarkResult(net, elapsed, test.method, test.desc, {})
       IN  /\ requests' = Append(requests,
                [method |-> test.method, path |-> test.path, locker_name |-> {}])
           /\ results' = Append(results, appended)
           /\ times' = TimesAfter(times, appended)
    /\ iterIdx' = iterIdx + 1
    /\ UNCHANGED <<configFile, benchLockers, iterations, benchPc, testIdx,
                   skipMessages, report>>
    /\ UNCHANGED exceptBench

\* The inner loop of a gateway test is over: the next test, or lines 144-197
NextTest ==
    /\ benchPc = "gateway"
    /\ iterIdx = iterations
    /\ iterIdx' = 0
    /\ times' = <<>>
    /\ IF testIdx < Len(GatewayTests)
       THEN /\ testIdx' = testIdx + 1
            /\ benchPc' = "gateway"
       ELSE /\ testIdx' = 0
            /\ benchPc' = IF configFile = "ok" /\ benchLockers # <<>>
                          THEN "lockers" ELSE "done"
    /\ UNCHANGED <<configFile, benchLockers, iterations, results, requests,
                   skipMessages, report>>
    /\ UNCHANGED exceptBench

\* for locker_name, locker_config in lockers.items(), lines 152-162
NextLocker ==
    /\ benchPc = "lockers"
    /\ iterIdx' = 0
    /\ times' = <<>>
    /\ IF testIdx = Len(benchLockers)
       THEN /\ benchPc' = "done"
            /\ UNCHANGED <<testIdx, skipMessages>>
       ELSE LET k == testIdx + 1
                locker_name == BenchLockerNames[k]
                identifier == benchLockers[k].identifier
                code == benchLockers[k].code
            IN  /\ testIdx' = k
                /\ IF SkipLocker(identifier, code)
                   THEN /\ skipMessages' = Append(skipMessages, locker_name)
                        /\ benchPc' = "lockers"
                   ELSE /\ skipMessages' = skipMessages
                        /\ benchPc' = "locker_requests"
    /\ UNCHANGED <<configFile, benchLockers, iterations, results, requests, report>>
    /\ UNCHANGED exceptBench

\* One turn of the inner loop of a locker, lines 164-184.  The clock is not
\* moved in this specification: every request is signed at the same reading.
LockerRequest(net, elapsed) ==
    /\ benchPc = "locker_requests"
    /\ iterIdx < iterations
    /\ LET locker_name == BenchLockerNames[testIdx]
           identifier == TheString(benchLockers[testIdx].identifier)
           code == TheString(benchLockers[testIdx].code)
           data == LockerStatusRequestData(identifier, code, now)
           appended == BenchmarkResult(net, elapsed, "POST",
                                     <<"Locker", locker_name, "Status">>, {locker_name})
       IN  /\ requests' = Append(requests,
                [method |-> "POST", path |-> "/locker_status",
                 locker_name |-> {locker_name}, data |-> data])
           /\ results' = Append(results, appended)
           /\ times' = TimesAfter(times, appended)
    /\ iterIdx' = iterIdx + 1
    /\ UNCHANGED <<configFile, benchLockers, iterations, benchPc, testIdx,
                   skipMessages, report>>
    /\ UNCHANGED exceptBench

\* The inner loop of a locker is over
LockerDone ==
    /\ benchPc = "locker_requests"
    /\ iterIdx = iterations
    /\ benchPc' = "lockers"
    /\ UNCHANGED <<configFile, benchLockers, iterations, testIdx, iterIdx,
                   results, requests, skipMessages, times, report>>
    /\ UNCHANGED exceptBench

\* ---- generate_report ----

\* A number of the report, as the fraction num/den (seconds, or a count)
Rat(n, d) == [num |-> n, den |-> d]
RatLess(a, b) == a.num * b.den < b.num * a.den
\* max(a, b) of Python: b only if it is greater
PyMaxFloorOnly(a, b) == b
PyMax(a, b) == IF RatLess(a, b) THEN b ELSE a
\* min(a, b) of Python on integers
PyMin(a, b) == IF b < a THEN b ELSE a

Successful(r) == r.success
Failed(r) == ~r.success
\* 'locker_name' not in r: benchmark_request sets the key for a name only
GatewayResult(r) == r.locker_name = {}
LockerResult(r) == r.locker_name # {}

RECURSIVE SumTimes(_)
SumTimes(rs) ==
    IF rs = <<>> THEN 0 ELSE rs[1].response_time + SumTimes(Tail(rs))
\* mean([r['response_time'] for r in rs]), in seconds
MeanTime(rs) == Rat(SumTimes(rs), 10 * Len(rs))

\* Lines 247-267
Recommendations(successful_results, gateway_results) ==
    LET avg_time == MeanTime(successful_results)
        recommended_delay == PyMax(Rat(2 * avg_time.num, avg_time.den), Rat(1, 1))
        gateway_avg == MeanTime(gateway_results)
        light_delay == PyMax(Rat(gateway_avg.num, 2 * gateway_avg.den), Rat(1, 5))
        discovery_delay == PyMax(Rat(avg_time.num, 2 * avg_time.den), Rat(1, 5))
        max_workers == PyMin(discovery_delay.den \div discovery_delay.num, 5)
    IN  [avg_time |-> avg_time,
         recommended_delay |-> recommended_delay,
         light_delay |-> IF gateway_results # <<>> THEN {light_delay} ELSE {},
         discovery_delay |-> discovery_delay,
         max_workers |-> max_workers]

\* generate_report as a function of self.results
Report(res) ==
    IF res = <<>> THEN [written |-> FALSE]
    ELSE LET successful_results == SelectSeq(res, Successful)
             failed_results == SelectSeq(res, Failed)
             gateway_results == SelectSeq(successful_results, GatewayResult)
             locker_results == SelectSeq(successful_results, LockerResult)
         IN  [written |-> TRUE,
              recommendations |->
                  IF successful_results # <<>>
                  THEN {Recommendations(successful_results, gateway_results)}
                  ELSE {},
              results |-> res,
              summary |->
                  [total_requests |-> Len(res),
                   successful |-> Len(successful_results),
                   failed |-> Len(failed_results),
                   avg_response_time |->
                       IF successful_results # <<>>
                       THEN {MeanTime(successful_results)} ELSE {}]]

\* main, line 314: generate_report() after run_benchmark_suite()
GenerateReport ==
    /\ benchPc = "done"
    /\ benchPc' = "reported"
    /\ report' = Report(results)
    /\ UNCHANGED <<configFile, benchLockers, iterations, testIdx, iterIdx,
                   results, requests, skipMessages, times>>
    /\ UNCHANGED exceptBench

BenchNext ==
    \/ \E net \in Outcomes, elapsed \in BenchElapsed : GatewayRequest(net, elapsed)
    \/ NextTest
    \/ NextLocker
    \/ \E net \in Outcomes, elapsed \in BenchElapsed : LockerRequest(net, elapsed)
    \/ LockerDone
    \/ GenerateReport

InitBench == BenchInit /\ GwInit /\ SignIdle /\ CliIdle /\ PortsIdle /\ EpIdle /\ MainIdle
SpecBench == InitBench /\ [][BenchNext]_vars

\* The claim's terms, for the locker at place k of the configuration
Unconfigured(k) ==
    \/ benchLockers[k].identifier \in {{}, {""}, {"YOUR_IDENTIFIER"}}
    \/ benchLockers[k].code \in {{}, {""}, {"YOUR_SHARE_CODE"}}
RequestsFor(k) ==
    {n \in 1..Len(requests) : requests[n].locker_name = {BenchLockerNames[k]}}
ResultsFor(k) ==
    {n \in 1..Len(results) : results[n].locker_name = {BenchLockerNames[k]}}
SkipMessagesFor(k) ==
    {n \in 1..Len(skipMessages) : skipMessages[n] = BenchLockerNames[k]}
\* The per-locker loop has dealt with the locker at place k
Passed(k) ==
    \/ benchPc \in {"done", "reported"}
    \/ benchPc = "lockers" /\ testIdx >= k
    \/ benchPc = "locker_requests" /\ testIdx > k

\* C8: a locker whose identifier or secret is missing, empty or a
\* placeholder never has a request or a result and, once the loop has
\* passed it, has one skip message; every other locker has no skip message
\* and, once the loop has passed it, exactly `iterations` requests, each a
\* POST of /locker_status signed for it, and as many results.
C8_PlaceholderLockersSkipped ==
    \A k \in 1..Len(benchLockers) :
        IF Unconfigured(k)
        THEN /\ RequestsFor(k) = {}
             /\ ResultsFor(k) = {}
             /\ Passed(k) => Cardinality(SkipMessagesFor(k)) = 1
        ELSE /\ SkipMessagesFor(k) = {}
             /\ Cardinality(RequestsFor(k)) <= iterations
             /\ Passed(k) =>
                  /\ Cardinality(RequestsFor(k)) = iterations
                  /\ Cardinality(ResultsFor(k)) = iterations
             /\ \A n \in RequestsFor(k) :
                  /\ requests[n].method = "POST"
                  /\ requests[n].path = "/locker_status"
                  /\ {requests[n].data.identifier} = benchLockers[k].identifier

\* A run over a placeholder locker and a configured one has ended: the
\* first was skipped, the second got its requests, one of which failed.
C8_Witness ==
    /\ benchPc = "done"
    /\ iterations = MaxIterations
    /\ Len(benchLockers) >= 2
    /\ benchLockers[1].identifier = {"YOUR_IDENTIFIER"}
    /\ benchLockers[1].code = {"k1"}
    /\ ~Unconfigured(2)
    /\ skipMessages = <<BenchLockerNames[1]>>
    /\ Cardinality(RequestsFor(2)) = iterations
    /\ \E n \in ResultsFor(2) : ~results[n].success

-----------------------------------------------------------------------------
(* benchmark.py: generate_report over any results (SpecReport) *)

\* Response times, in tenths of a second, from no time at all to the
\* 10-second timeout of benchmark_request
ReportTimes == {0, 1, 2, 3, 30, 100}
\* Results as benchmark_request appends them: of a gateway test, or of the
\* status test of a locker
ReportResults ==
    [method : {"GET"}, description : {"Gateway Status"}, success : BOOLEAN,
     response_time : ReportTimes, locker_name : {{}}]
    \cup [method : {"POST"}, description : {<<"Locker", "frontdoor", "Status">>},
          success : BOOLEAN, response_time : ReportTimes,
          locker_name : {{"frontdoor"}}]

\* A GatewayBenchmark whose suite is over, with up to MaxResults results.
\* The configuration and the request history are not followed here.
ReportInit ==
    /\ results \in UNION {[1..n -> ReportResults] : n \in 0..MaxResults}
    /\ benchPc = "done"
    /\ configFile = "missing"
    /\ benchLockers = <<>>
    /\ iterations = 0
    /\ testIdx = 0
    /\ iterIdx = 0
    /\ requests = <<>>
    /\ skipMessages = <<>>
    /\ times = <<>>
    /\ report = [written |-> FALSE]

ReportNext == GenerateReport

InitReport == ReportInit /\ GwInit /\ SignIdle /\ CliIdle /\ PortsIdle /\ EpIdle /\ MainIdle
SpecReport == InitReport /\ [][ReportNext]_vars

\* The claims' terms: the successful results, their number and total time
SuccessfulAt == {n \in 1..Len(results) : results[n].success}
GatewaySuccessfulAt == {n \in SuccessfulAt : results[n].locker_name = {}}
RECURSIVE TotalTime(_)
TotalTime(S) ==
    IF S = {} THEN 0
    ELSE LET n == CHOOSE m \in S : TRUE
         IN  results[n].response_time + TotalTime(S \ {n})
\* The fraction q is c times the mean response time (seconds) of the results at S
IsTimesMean(q, cnum, cden, S) ==
    q.num * cden * 10 * Cardinality(S) = cnum * TotalTime(S) * q.den
RatEq(q, n, d) == q.num * d = n * q.den
RatGeq(q, n, d) == q.num * d >= n * q.den
\* q = max(c x mean over S, floor), c = cnum/cden, floor = fnum/fden
IsMaxOfMeanAnd(q, cnum, cden, S, fnum, fden) ==
    /\ RatGeq(q, fnum, fden)
    /\ q.num * cden * 10 * Cardinality(S) >= cnum * TotalTime(S) * q.den
    /\ RatEq(q, fnum, fden) \/ IsTimesMean(q, cnum, cden, S)
TheRecommendations == CHOOSE r \in report.recommendations : TRUE
\* The delay the report suggests for light operations: the line for
\* status/list when it is printed, the line for lighter requests otherwise
LightSuggested ==
    IF TheRecommendations.light_delay # {}
    THEN CHOOSE l \in TheRecommendations.light_delay : TRUE
    ELSE TheRecommendations.discovery_delay

\* C11: when a request succeeded, the report's heavy delay is
\* max(2 x mean, 1.0) and its light delay is max(0.5 x mean, 0.2), with the
\* mean of the gateway-only results in place of the overall mean when there
\* are any; means are over successful results only; timings 0.1, 0.2, 0.3
\* give heavy = 1.0 and light = 0.2.
C11_SuggestedDelays ==
    benchPc = "reported" =>
        /\ (report.written /\ report.recommendations # {}) <=> SuccessfulAt # {}
        /\ SuccessfulAt # {} =>
             /\ IsMaxOfMeanAnd(TheRecommendations.recommended_delay,
                               2, 1, SuccessfulAt, 1, 1)
             /\ IsMaxOfMeanAnd(TheRecommendations.discovery_delay,
                               1, 2, SuccessfulAt, 1, 5)
             /\ TheRecommendations.light_delay # {} <=> GatewaySuccessfulAt # {}
             /\ IsMaxOfMeanAnd(LightSuggested, 1, 2,
                               IF GatewaySuccessfulAt # {} THEN GatewaySuccessfulAt
                               ELSE SuccessfulAt,
                               1, 5)
             /\ [n \in 1..Len(results) |-> results[n].response_time] = <<1, 2, 3>>
                /\ SuccessfulAt = 1..3
                  => /\ RatEq(TheRecommendations.recommended_delay, 1, 1)
                     /\ RatEq(LightSuggested, 1, 5)

\* A report over a slow gateway result, a failed one and a locker result:
\* the heavy delay is above its floor, the light delay follows the gateway
\* result alone.
C11_Witness ==
    /\ benchPc = "reported"
    /\ Len(results) = 3
    /\ Cardinality(SuccessfulAt) = 2
    /\ Cardinality(GatewaySuccessfulAt) = 1
    /\ \E n \in 1..3 : ~results[n].success /\ results[n].response_time = 100
    /\ ~RatEq(TheRecommendations.recommended_delay, 1, 1)
    /\ ~RatEq(LightSuggested, 1, 5)
    /\ ~IsTimesMean(LightSuggested, 1, 2, SuccessfulAt)

\* C17 (as claimed): whenever recommendations are printed, the suggested
\* worker count for discovery is an integer from 1 to 5, whatever the mean
\* response time of the successful requests up to the 10-second timeout.
C17_WorkersBetweenOneAndFive ==
    (benchPc = "reported" /\ report.written /\ report.recommendations # {}) =>
        TheRecommendations.max_workers \in 1..5

-----------------------------------------------------------------------------
(* benchmark.py: a run and its report (SpecBench) *)

\* The results of the test in progress: the last iterIdx ones
CurrentTestAt == {n \in 1..Len(results) : n > Len(results) - iterIdx}
RECURSIVE TimesOf(_, _)
\* The response times of the successful results at places n..Len(results)
TimesOf(n, S) ==
    IF n > Len(results) THEN <<>>
    ELSE IF n \in S /\ results[n].success
         THEN <<results[n].response_time>> \o TimesOf(n + 1, S)
         ELSE TimesOf(n + 1, S)

\* C12: every request issued has appended exactly one result, in issue
\* order; the timing lists hold successful results only; a report is
\* written when a request was issued, and it holds every result, with
\* total_requests = successful + failed = the number of requests issued
\* and the average taken over the successful results.
C12_OneResultPerRequest ==
    /\ Len(results) = Len(requests)
    /\ \A n \in 1..Len(requests) :
         /\ results[n].method = requests[n].method
         /\ results[n].locker_name = requests[n].locker_name
    /\ times = TimesOf(1, CurrentTestAt)
    /\ benchPc = "reported" =>
         /\ report.written <=> requests # <<>>
         /\ report.written =>
              /\ report.results = results
              /\ report.summary.total_requests = Len(requests)
              /\ report.summary.successful + report.summary.failed = Len(requests)
              /\ report.summary.successful = Cardinality(SuccessfulAt)
              /\ report.summary.avg_response_time # {} <=> SuccessfulAt # {}
              /\ \A q \in report.summary.avg_response_time :
                   IsTimesMean(q, 1, 1, SuccessfulAt)
              /\ \A rec \in report.recommendations :
                   IsTimesMean(rec.avg_time, 1, 1, SuccessfulAt)

\* A run with gateway and locker requests, some failed and slow, some
\* successful and quick, has been reported.
C12_Witness ==
    /\ benchPc = "reported"
    /\ report.written
    /\ Len(requests) >= 3
    /\ report.summary.failed >= 1
    /\ report.summary.successful >= 2
    /\ \E n \in 1..Len(results) : ~results[n].success /\ results[n].response_time = 30
    /\ \E n \in SuccessfulAt : results[n].locker_name # {}
    /\ \E n \in SuccessfulAt : results[n].response_time = 1

-----------------------------------------------------------------------------
(* discover.py: main, the port scan and then the endpoint scans (SpecDiscover) *)

\* What an endpoint probe meets in a whole run: an answer or none
MainProbeOutcomes ==
    {[kind |-> "response", status |-> 200, body |-> "json"], [kind |-> "URLError"]}

\* main has called scan_ports(host), line 197
MainInit ==
    /\ mainPc = "scan_ports"
    /\ mainIdx = 0
    /\ all_discoveries = <<>>

\* for port in open_ports: scan_endpoints(host, port) is called, or the loop
\* is over; lines 197-201
NextPort ==
    /\ \/ mainPc = "scan_ports" /\ scanPc = "returned"
       \/ mainPc = "loop"
    /\ IF mainIdx < Len(open_ports)
       THEN /\ mainIdx' = mainIdx + 1
            /\ mainPc' = "scan_endpoints"
            /\ epPc' = "scanning"
            /\ epPort' = open_ports[mainIdx + 1]
            /\ epDone' = 0
            /\ epNet' = NoOutcome
            /\ epResults' = <<>>
            /\ discovered' = [GET |-> <<>>, POST |-> <<>>]
       ELSE /\ mainPc' = "summary"
            /\ UNCHANGED <<mainIdx, epPc, epPort, epDone, epNet, epResults, discovered>>
    /\ UNCHANGED <<epRequests, all_discoveries>>
    /\ UNCHANGED <<portVars, exceptMain>>

\* scan_endpoints has returned; lines 202-203
KeepDiscoveries ==
    /\ mainPc = "scan_endpoints"
    /\ epPc = "returned"
    /\ mainPc' = "loop"
    /\ all_discoveries' =
         IF discovered.GET # <<>> \/ discovered.POST # <<>>
         THEN (epPort :> discovered) @@ all_discoveries
         ELSE all_discoveries
    /\ UNCHANGED mainIdx
    /\ UNCHANGED <<portVars, epVars, exceptMain>>

MainNext ==
    \/ \E i \in Tasks : StartProbe(i)
    \/ \E i \in Tasks : FinishProbe(i)
    \/ \E i \in Tasks : Collect(i)
    \/ ReturnPorts
    \/ NextPort
    \/ \E net \in MainProbeOutcomes : Probe(net)
    \/ ReturnEndpoints
    \/ KeepDiscoveries

InitDiscover == MainInit /\ PortsInit /\ EpIdle /\ GwInit /\ SignIdle /\ CliIdle /\ BenchIdle
SpecDiscover == InitDiscover /\ [][MainNext]_vars

\* C13 (as claimed): at most 10 port probes are in flight at any moment,
\* no two probe tasks have the same (host, port) pair, and no endpoint probe
\* is issued before every port probe has completed and been collected.
C13_ProbeTasksDisjoint ==
    /\ Cardinality(Running) <= 10
    /\ \A i, j \in Tasks : i # j => Candidates[i] # Candidates[j]
    /\ epRequests # <<>> =>
         /\ scanPc = "returned"
         /\ collected = Tasks
         /\ \A i \in Tasks : task[i] = "done"

RequestsAt(port, method, path) ==
    {n \in 1..Len(epRequests) : epRequests[n] = <<port, method, path>>}
CandidatePairs ==
    {<<"GET", GetEndpoints[k]>> : k \in 1..Len(GetEndpoints)}
    \cup {<<"POST", PostEndpoints[k]>> : k \in 1..Len(PostEndpoints)}

\* C14 (as claimed): in one run no (port, method, path) is requested a
\* second time; at the end each candidate (method, path) has been requested
\* exactly once for every open port and never for another port; for each
\* port the GET requests come before the POST requests.
C14_EachPairOncePerPort ==
    /\ \A a, b \in 1..Len(epRequests) : a # b => epRequests[a] # epRequests[b]
    /\ mainPc = "summary" =>
         \A port \in CandidatePorts : \A pair \in CandidatePairs :
             Cardinality(RequestsAt(port, pair[1], pair[2])) =
                 (IF port \in hostOpen THEN 1 ELSE 0)
    /\ \A a, b \in 1..Len(epRequests) :
         (a < b /\ epRequests[a][1] = epRequests[b][1])
             => ~(epRequests[a][2] = "POST" /\ epRequests[b][2] = "GET")

-----------------------------------------------------------------------------
(* lock.py: order of the steps of a signed operation (SpecGateway) *)

\* C15: in a signed operation nothing is built or sent while the rate
\* limiter waits or before last_request_time is recorded; the request is
\* sent only once built; its timestamp is a whole second read in this call,
\* between the floor of the last_request_time this call recorded and the
\* floor of the present time, and it signs the request.
C15_TimestampAfterRateLimit ==
    (pc # "idle" /\ op.name \in SignedOps) =>
        /\ pc \in {"sleep", "stamp", "build"} => (request = NoRequest /\ sent = 0)
        /\ pc \in {"send", "returned"} =>
             /\ request # NoRequest
             /\ reqLog[Len(reqLog)].t = last_request_time
             /\ current_time <= last_request_time
             /\ \E n \in IntSeconds(last_request_time)..IntSeconds(now) :
                  /\ request.data.ts = Str(n)
                  /\ request.data.hash = B64Encode(HmacSha256(op.code, Str(n)))
        /\ sent >= 1 => pc = "returned"

\* A second call, signed, has slept across a second boundary and has been
\* sent: its timestamp is later than the second in which it was called.
C15_Witness ==
    /\ pc = "returned"
    /\ op.name \in SignedOps
    /\ Len(reqLog) >= 2
    /\ sleep_time > 0
    /\ sent = 1
    /\ IntSeconds(current_time) < IntSeconds(last_request_time)
    /\ request.data.ts # Str(IntSeconds(current_time))

-----------------------------------------------------------------------------
(* lock.py: requests issued by one run of the command line (SpecCli) *)

RecognisedActions == {"open", "close", "calibrate", "status", "sync", "update"}
GatewayCommand == Len(argv) >= 1 /\ argv[1] \in GatewayCommands
KnownLockerAction ==
    /\ Len(argv) >= 2
    /\ argv[1] \notin GatewayCommands
    /\ argv[1] \in DOMAIN lockers
    /\ argv[2] \in RecognisedActions
\* The Gateway method each command stands for
MethodOfCommand(w) ==
    CASE w \in {"list", "search"} -> "search"
      [] w = "sync" -> "synchronize"
      [] w = "update" -> "update"
      [] w = "status" -> "status_gateway"

\* C16 (as claimed): a run issues at most one request: exactly one for a
\* gateway command or a known locker with a recognised action, none
\* otherwise; a first argument that is a gateway command is dispatched as
\* that command even if a locker has that name.
C16_OneRequestAsClaimed ==
    /\ cliSent <= 1
    /\ cliPc = "exited" =>
         /\ cliSent = (IF GatewayCommand \/ KnownLockerAction THEN 1 ELSE 0)
         /\ GatewayCommand => cliCall = MethodOfCommand(argv[1])

\* C16 (amended): a run issues at most one request.  When config.json loads,
\* it issues exactly one for a gateway command, dispatched as that command
\* even if a locker has that name, and exactly one for a known locker with a
\* recognised action whose entry has the keys that action reads; it issues
\* none in every other case, and none when config.json does not load.
C16_OneRequest ==
    /\ cliSent <= 1
    /\ cliPc = "exited" =>
         /\ cliSent = (IF /\ cfgFile = "ok"
                          /\ \/ GatewayCommand
                             \/ (KnownLockerAction /\ ~EntryLacksKey)
                       THEN 1 ELSE 0)
         /\ (cfgFile = "ok" /\ GatewayCommand) => cliCall = MethodOfCommand(argv[1])

\* "list open" with a locker named "list" configured: the run has ended
\* after one request, the search.
C16_Witness ==
    /\ cliPc = "exited"
    /\ argv = <<"list", "open">>
    /\ "list" \in DOMAIN lockers
    /\ cliSent = 1
    /\ cliCall = "search"

=============================================================================
